---- MODULE Spec2Model ----
(***************************************************************************)
(* A model of BasicStats.hpp: the order statistics (median, percentile),   *)
(* the criteria filter, the resampler and the two bootstrap                *)
(* confidence_interval overloads.                                          *)
(*                                                                         *)
(* Numbers.  A double is modelled as an exact rational [n, d] in lowest    *)
(* terms with d > 0; floating-point rounding is not modelled.  An element  *)
(* of type T is a rational as well: for T = "int" its denominator is 1     *)
(* and a conversion double -> int truncates toward zero.  Element values   *)
(* stay far from the limits of T, so that T's own arithmetic (the int      *)
(* sum in median, the int difference in percentile) is exact.              *)
(*                                                                         *)
(* Random numbers.  std::mt19937 is not modelled: the indices that         *)
(* dist(gen) yields are any sequence of values of the distribution's       *)
(* range, whatever the seed.                                               *)
(***************************************************************************)
EXTENDS Integers, Sequences, FiniteSets, TLC

\* ------------------------------------------------------------------ bounds
MaxLen == 3
MaxVal == 2
MaxSample == 2
MaxIter == 2

\* ---------------------------------------------------------------- numbers
Abs(x) == IF x < 0 THEN 0 - x ELSE x

RECURSIVE GCD(_, _)
GCD(a, b) == IF b = 0 THEN a ELSE GCD(b, a % b)

\* the rational num/den (den # 0) in lowest terms
Rat(num, den) ==
    LET g == GCD(Abs(num), Abs(den))
        s == IF den < 0 THEN 0 - 1 ELSE 1
    IN  [n |-> (s * num) \div g, d |-> (s * den) \div g]

RInt(k) == [n |-> k, d |-> 1]

RAdd(a, b) == Rat(a.n * b.d + b.n * a.d, a.d * b.d)
RSub(a, b) == Rat(a.n * b.d - b.n * a.d, a.d * b.d)
RMul(a, b) == Rat(a.n * b.n, a.d * b.d)
RDiv(a, b) == Rat(a.n * b.d, a.d * b.n)
RLt(a, b) == a.n * b.d < b.n * a.d
RLe(a, b) == a.n * b.d <= b.n * a.d

\* std::floor and std::ceil followed by the conversion to size_t
Floor(r) == r.n \div r.d
Ceil(r) == 0 - ((0 - r.n) \div r.d)

\* the conversion double -> int: the fraction is discarded (toward zero)
Trunc(r) == IF r.n >= 0 THEN r.n \div r.d ELSE 0 - ((0 - r.n) \div r.d)

\* the implicit conversion of a double to the element type T
ToT(T, r) == IF T = "int" THEN RInt(Trunc(r)) ELSE r

Types == {"int", "double"}

\* the values an element of type T takes in the model
ElemVals(T) ==
    IF T = "int" THEN {RInt(v) : v \in (0 - 1)..MaxVal}
    ELSE {Rat(k, 2) : k \in (0 - 2)..(2 * MaxVal)}

\* all sequences over S of length lo..hi
SeqsOf(S, lo, hi) == UNION {[1..k -> S] : k \in lo..hi}

\* ------------------------------------------------------------- containers
\* what a read of v[i] yields when i is not an index of v
OutOfBounds == [n |-> 0, d |-> 0]

\* v[i], with the 0-based index of the source
At(v, i) == IF i \in 0..(Len(v) - 1) THEN v[i + 1] ELSE OutOfBounds

RECURSIVE Insert(_, _)
Insert(x, s) ==
    IF s = <<>> THEN <<x>>
    ELSE IF RLe(x, Head(s)) THEN <<x>> \o s
    ELSE <<Head(s)>> \o Insert(x, Tail(s))

\* a faulty variant of Sort: the copy is left in the caller's order
Unsorted(s) == s

\* std::sort(begin, end): the elements in ascending order
RECURSIVE Sort(_)
Sort(s) == IF s = <<>> THEN <<>> ELSE Insert(Head(s), Sort(Tail(s)))

\* ------------------------------------------------------------- statistics
RECURSIVE sum(_)
sum(data) == IF data = <<>> THEN RInt(0) ELSE RAdd(Head(data), sum(Tail(data)))

mean(data) ==
    IF data = <<>> THEN RInt(0)
    ELSE RDiv(sum(data), RInt(Len(data)))

\* a faulty variant of median: the upper middle element, whatever the parity
MedianUpper(data) ==
    IF data = <<>> THEN RInt(0)
    ELSE At(Sort(data), Len(data) \div 2)

median(data) ==
    IF data = <<>> THEN RInt(0)
    ELSE LET sorted_data == Sort(data)
             n == Len(sorted_data)
         IN  IF n % 2 = 0
             THEN RDiv(RAdd(At(sorted_data, (n \div 2) - 1), At(sorted_data, n \div 2)),
                       RInt(2))
             ELSE At(sorted_data, n \div 2)

\* outcomes of a call
Value(v) == [kind |-> "value", val |-> v]
Throw(e) == [kind |-> "throw", val |-> e]
NoOutcome == [kind |-> "none", val |-> "none"]

\* the test p < 0 || p > 100 of percentile
BadPercent(p) == RLt(p, RInt(0)) \/ RLt(RInt(100), p)

percentile(data, p) ==
    IF data = <<>> THEN Value(RInt(0))
    ELSE IF BadPercent(p) THEN Throw("out_of_range")
    ELSE LET sorted_data == Sort(data)
             size == Len(sorted_data)
             rank == RMul(RDiv(p, RInt(100)), RInt(size - 1))
             lower == Floor(rank)
             upper == Ceil(rank)
             weight == RSub(rank, RInt(lower))
         IN  IF upper >= size THEN Value(At(sorted_data, lower))
             ELSE Value(RAdd(At(sorted_data, lower),
                             RMul(weight, RSub(At(sorted_data, upper),
                                               At(sorted_data, lower)))))

\* the test data1.empty() || data2.empty() of the two-sample
\* confidence_interval, and a faulty variant with && in its place
BothEmpty(data1, data2) == data1 = <<>> /\ data2 = <<>>

EitherEmpty(data1, data2) == data1 = <<>> \/ data2 = <<>>

\* the confidence_level test of both confidence_interval overloads, and a
\* faulty variant that admits the two end points
BadLevelOpen(level) == RLt(level, RInt(0)) \/ RLt(RInt(100), level)

BadLevel(level) == RLe(level, RInt(0)) \/ RLe(RInt(100), level)

\* min and max, the pair confidence_interval returns, and a faulty variant
\* that swaps the two ranks
IntervalSwapped(results, level) ==
    LET min == percentile(results, RSub(RInt(100), RDiv(RSub(RInt(100), level), RInt(2))))
        max == percentile(results, RDiv(RSub(RInt(100), level), RInt(2)))
    IN  IF min.kind = "throw" THEN min
        ELSE IF max.kind = "throw" THEN max
        ELSE Value(<<min.val, max.val>>)

Interval(results, level) ==
    LET min == percentile(results, RDiv(RSub(RInt(100), level), RInt(2)))
        max == percentile(results, RSub(RInt(100), RDiv(RSub(RInt(100), level), RInt(2))))
    IN  IF min.kind = "throw" THEN min
        ELSE IF max.kind = "throw" THEN max
        ELSE Value(<<min.val, max.val>>)


\* ----------------------------------------------------------------- filter
\* the caller's predicate, of the shape the tests pass: x > k
PredHolds(k, x) == RLt(RInt(k), x)

RECURSIVE FilterOnData(_, _, _, _)
\* a faulty variant of FilterFrom: the predicate is given the data element
FilterOnData(data, criteria_data, k, i) ==
    IF i >= Len(criteria_data) THEN <<>>
    ELSE (IF PredHolds(k, At(data, i)) THEN <<At(data, i)>> ELSE <<>>)
         \o FilterOnData(data, criteria_data, k, i + 1)

RECURSIVE FilterFrom(_, _, _, _)
\* the loop of the criteria filter from index i on
FilterFrom(data, criteria_data, k, i) ==
    IF i >= Len(criteria_data) THEN <<>>
    ELSE (IF PredHolds(k, At(criteria_data, i)) THEN <<At(data, i)>> ELSE <<>>)
         \o FilterFrom(data, criteria_data, k, i + 1)

filter(data, criteria_data, k) ==
    IF Len(criteria_data) # Len(data) THEN Throw("invalid_argument")
    ELSE Value(FilterFrom(data, criteria_data, k, 0))

\* --------------------------------------------------------------- resample
\* a faulty variant of DistRange: dist(0, size)
DistRangeClosed(size) == 0..size

\* the values of std::uniform_int_distribution<size_t> dist(0, size - 1)
DistRange(size) == 0..(size - 1)

\* the number of passes of the loop for (i = 0; i < data.size(); i++)
ResampleCount(size) == size

\* the index sequences a call of resample can draw
Draws(data) ==
    IF data = <<>> THEN {<<>>}
    ELSE [1..ResampleCount(Len(data)) -> DistRange(Len(data))]

\* the result of resample for the drawn indices
resample(data, indices) == [j \in 1..Len(indices) |-> At(data, indices[j])]

\* ------------------------------------------------------- statistic_fn
Funcs == {"mean", "median"}

\* func(resampled_data), for the statistics the model passes as func
Apply(func, data) == IF func = "mean" THEN mean(data) ELSE median(data)

\* ------------------------------------------------------------------ inputs
PVals == {RInt(0 - 10), Rat(0 - 1, 2), RInt(0), RInt(25), RInt(50), RInt(75),
          RInt(100), Rat(201, 2), RInt(110)}
Levels == {RInt(0 - 5), RInt(0), RInt(50), RInt(90), RInt(100), RInt(120)}
Thresholds == 0..1
\* the element values of the samples given to confidence_interval
SampleVals(T) == IF T = "int" THEN {RInt(1), RInt(2)} ELSE {Rat(1, 2), RInt(2)}

\* ------------------------------------------------------------------- state
VARIABLES pc, call, ret, result_vector, computed, i, drawn, nResample, nFunc

vars == <<pc, call, ret, result_vector, computed, i, drawn, nResample, nFunc>>

NoCall == [op |-> "none", T |-> "int", data |-> <<>>, data2 |-> <<>>,
           p |-> RInt(0), pred |-> 0, func |-> "none", level |-> RInt(0), nmax |-> 0]

Init ==
    /\ pc = "idle"
    /\ call = NoCall
    /\ ret = NoOutcome
    /\ result_vector = <<>>
    /\ computed = <<>>
    /\ i = 0
    /\ drawn = <<>>
    /\ nResample = 0
    /\ nFunc = 0

\* percentile(data, p)
CallPercentile ==
    /\ pc = "idle"
    /\ \E T \in Types : \E data \in SeqsOf(ElemVals(T), 0, MaxLen) : \E p \in PVals :
          /\ call' = [NoCall EXCEPT !.op = "percentile", !.T = T, !.data = data, !.p = p]
          /\ ret' = percentile(data, p)
    /\ pc' = "done"
    /\ UNCHANGED <<result_vector, computed, i, drawn, nResample, nFunc>>

\* median(data)
CallMedian ==
    /\ pc = "idle"
    /\ \E T \in Types : \E data \in SeqsOf(ElemVals(T), 0, MaxLen) :
          /\ call' = [NoCall EXCEPT !.op = "median", !.T = T, !.data = data]
          /\ ret' = Value(median(data))
    /\ pc' = "done"
    /\ UNCHANGED <<result_vector, computed, i, drawn, nResample, nFunc>>

\* filter(data, criteria_data, predicate)
CallFilter ==
    /\ pc = "idle"
    /\ \E data \in SeqsOf(ElemVals("int"), 0, MaxSample) :
       \E criteria_data \in SeqsOf(ElemVals("int"), 0, MaxSample) :
       \E k \in Thresholds :
          /\ call' = [NoCall EXCEPT !.op = "filter", !.data = data,
                                    !.data2 = criteria_data, !.pred = k]
          /\ ret' = filter(data, criteria_data, k)
    /\ pc' = "done"
    /\ UNCHANGED <<result_vector, computed, i, drawn, nResample, nFunc>>

\* resample(data, seed)
CallResample ==
    /\ pc = "idle"
    /\ \E T \in Types : \E data \in SeqsOf(ElemVals(T), 0, MaxSample) :
       \E indices \in Draws(data) :
          /\ call' = [NoCall EXCEPT !.op = "resample", !.T = T, !.data = data]
          /\ drawn' = indices
          /\ ret' = Value(resample(data, indices))
    /\ pc' = "done"
    /\ UNCHANGED <<result_vector, computed, i, nResample, nFunc>>

\* confidence_interval(data, func, confidence_level, nmax) up to the loop
CallCI1 ==
    /\ pc = "idle"
    /\ \E T \in Types : \E data \in SeqsOf(SampleVals(T), 0, MaxSample) :
       \E func \in Funcs : \E level \in Levels : \E nmax \in 0..MaxIter :
          /\ call' = [NoCall EXCEPT !.op = "ci1", !.T = T, !.data = data,
                                    !.func = func, !.level = level, !.nmax = nmax]
          /\ IF data = <<>>
             THEN pc' = "done" /\ ret' = Value(<<RInt(0), RInt(0)>>)
             ELSE IF BadLevel(level)
             THEN pc' = "done" /\ ret' = Throw("out_of_range")
             ELSE pc' = "ci_loop" /\ ret' = NoOutcome
    /\ UNCHANGED <<result_vector, computed, i, drawn, nResample, nFunc>>

\* confidence_interval(data1, data2, func, confidence_level, nmax) up to the loop
CallCI2 ==
    /\ pc = "idle"
    /\ \E T \in Types : \E data1 \in SeqsOf(SampleVals(T), 0, MaxSample) :
       \E data2 \in SeqsOf(SampleVals(T), 0, MaxSample) :
       \E func \in Funcs : \E level \in Levels : \E nmax \in 0..MaxIter :
          /\ call' = [NoCall EXCEPT !.op = "ci2", !.T = T, !.data = data1,
                                    !.data2 = data2, !.func = func,
                                    !.level = level, !.nmax = nmax]
          /\ IF EitherEmpty(data1, data2)
             THEN pc' = "done" /\ ret' = Value(<<RInt(0), RInt(0)>>)
             ELSE IF BadLevel(level)
             THEN pc' = "done" /\ ret' = Throw("out_of_range")
             ELSE pc' = "ci_loop" /\ ret' = NoOutcome
    /\ UNCHANGED <<result_vector, computed, i, drawn, nResample, nFunc>>

\* a faulty variant of LoopContinues: i <= nmax
LoopContinuesClosed(k, nmax) == k <= nmax

\* the loop test i < nmax
LoopContinues(k, nmax) == k < nmax

\* the values func can return for a resample of data: func(resample(data))
\* over every index sequence resample can draw
Resampled(func, data) ==
    {Apply(func, resample(data, indices)) : indices \in Draws(data)}

\* one pass of the one-sample loop.  The source declares the resample as
\* resamepled_data and passes resampled_data to func: the model reads both as
\* one variable.
CI1Iter ==
    /\ pc = "ci_loop"
    /\ call.op = "ci1"
    /\ LoopContinues(i, call.nmax)
    /\ \E result \in Resampled(call.func, call.data) :
          /\ result_vector' = Append(result_vector, ToT(call.T, result))
          /\ computed' = Append(computed, result)
    /\ nResample' = nResample + 1
    /\ nFunc' = nFunc + 1
    /\ i' = i + 1
    /\ UNCHANGED <<pc, call, ret, drawn>>

\* one pass of the two-sample loop
CI2Iter ==
    /\ pc = "ci_loop"
    /\ call.op = "ci2"
    /\ LoopContinues(i, call.nmax)
    /\ \E result1 \in Resampled(call.func, call.data) :
       \E result2 \in Resampled(call.func, call.data2) :
          LET result == RSub(result1, result2)
          IN  /\ result_vector' = Append(result_vector, ToT(call.T, result))
              /\ computed' = Append(computed, result)
    /\ nResample' = nResample + 2
    /\ nFunc' = nFunc + 2
    /\ i' = i + 1
    /\ UNCHANGED <<pc, call, ret, drawn>>

\* the loop test fails: control reaches the two calls of percentile
CILoopExit ==
    /\ pc = "ci_loop"
    /\ ~LoopContinues(i, call.nmax)
    /\ pc' = "ci_percentile"
    /\ UNCHANGED <<call, ret, result_vector, computed, i, drawn, nResample, nFunc>>

\* min and max from percentile, and the return of the pair
CIReturn ==
    /\ pc = "ci_percentile"
    /\ ret' = Interval(result_vector, call.level)
    /\ pc' = "done"
    /\ UNCHANGED <<call, result_vector, computed, i, drawn, nResample, nFunc>>

NextPure ==
    \/ CallPercentile
    \/ CallMedian
    \/ CallFilter
    \/ CallResample

NextCI ==
    \/ CallCI1
    \/ CallCI2
    \/ CI1Iter
    \/ CI2Iter
    \/ CILoopExit
    \/ CIReturn

Next == NextPure \/ NextCI

Spec == Init /\ [][Next]_vars

\* the calls of percentile, median, filter and resample alone
SpecPure == Init /\ [][NextPure]_vars

\* the calls of the two confidence_interval overloads alone
SpecCI == Init /\ [][NextCI]_vars

\* ---------------------------------------------------------------- claims
Returned == pc = "done" /\ ret.kind = "value"
Threw(e) == pc = "done" /\ ret.kind = "throw" /\ ret.val = e
IsCI == call.op \in {"ci1", "ci2"}
\* every sample the call was given is non-empty
NonEmptyInputs == call.data # <<>> /\ (call.op = "ci2" => call.data2 # <<>>)
Zero == RInt(0)
Hundred == RInt(100)

\* the elements of a sequence, and its least and greatest element
Elems(s) == {s[j] : j \in 1..Len(s)}
MinOf(s) == CHOOSE x \in Elems(s) : \A y \in Elems(s) : RLe(x, y)
MaxOf(s) == CHOOSE x \in Elems(s) : \A y \in Elems(s) : RLe(y, x)

\* the k-th smallest element of s (k in 1..Len(s)), by counting
OrderStat(s, k) ==
    CHOOSE x \in Elems(s) :
        /\ Cardinality({j \in 1..Len(s) : RLt(s[j], x)}) < k
        /\ k <= Cardinality({j \in 1..Len(s) : RLe(s[j], x)})

\* C1 (as stated): a call percentile(data, p) throws out_of_range exactly
\* when p < 0 or p > 100, for every sample, the empty one included.
C1_ThrowsIffOutOfRange ==
    (pc = "done" /\ call.op = "percentile") =>
        ((RLt(call.p, Zero) \/ RLt(Hundred, call.p)) <=> Threw("out_of_range"))

\* C1 (the part that holds): for a non-empty sample percentile throws
\* out_of_range exactly when p < 0 or p > 100.
C1_NonEmptyThrowsIffOutOfRange ==
    (pc = "done" /\ call.op = "percentile" /\ call.data # <<>>) =>
        ((RLt(call.p, Zero) \/ RLt(Hundred, call.p)) <=> Threw("out_of_range"))

\* C2 (as stated): every call of confidence_interval whose confidence_level
\* is <= 0 or >= 100 throws out_of_range, with no resample drawn, func never
\* invoked and no pair returned.
C2_BadLevelAlwaysThrows ==
    (IsCI /\ (RLe(call.level, Zero) \/ RLe(Hundred, call.level))) =>
        (Threw("out_of_range") /\ nResample = 0 /\ nFunc = 0)

\* C2 (amended): every call of confidence_interval with non-empty input
\* samples whose confidence_level is <= 0 or >= 100 throws out_of_range
\* before any computation: no resample drawn, func never invoked, nothing
\* accumulated, no pair returned.
C2_BadLevelThrowsOnNonEmpty ==
    (IsCI /\ NonEmptyInputs /\ (RLe(call.level, Zero) \/ RLe(Hundred, call.level))) =>
        (/\ Threw("out_of_range")
         /\ nResample = 0
         /\ nFunc = 0
         /\ i = 0
         /\ result_vector = <<>>)

C2_Witness ==
    /\ call.op = "ci2"
    /\ Len(call.data) = 2
    /\ Len(call.data2) = 1
    /\ call.level = Hundred
    /\ Threw("out_of_range")

\* C3: confidence_interval with an empty input sample (the sample, or either
\* of the two samples) returns exactly (0, 0), whatever the level, func and
\* nmax, without invoking func, drawing a resample or running an iteration.
C3_EmptyInputReturnsZeroPair ==
    (IsCI /\ ~NonEmptyInputs) =>
        (/\ Returned
         /\ ret.val = <<Zero, Zero>>
         /\ nResample = 0
         /\ nFunc = 0
         /\ i = 0
         /\ result_vector = <<>>)

C3_Witness ==
    /\ call.op = "ci2"
    /\ Len(call.data) = 2
    /\ call.data2 = <<>>
    /\ call.level = RInt(120)
    /\ call.nmax = MaxIter
    /\ Returned
    /\ ret.val = <<Zero, Zero>>

\* C4: for every non-empty sample, in whatever order its elements come,
\* percentile(sample, 0) is the least element and percentile(sample, 100)
\* the greatest.
C4_EndPointsAreMinMax ==
    (pc = "done" /\ call.op = "percentile" /\ call.data # <<>>) =>
        /\ call.p = Zero => (Returned /\ ret.val = MinOf(call.data))
        /\ call.p = Hundred => (Returned /\ ret.val = MaxOf(call.data))

C4_Witness ==
    /\ pc = "done"
    /\ call.op = "percentile"
    /\ call.p = Hundred
    /\ Len(call.data) = 3
    /\ RLt(call.data[3], call.data[2])
    /\ RLt(call.data[2], call.data[1])
    /\ Returned
    /\ ret.val = call.data[1]

\* C5: for every non-empty sample percentile(sample, 50) returns what
\* median(sample) returns: the middle order statistic for an odd length, the
\* average of the two middle order statistics for an even length.
C5_Percentile50IsMedian ==
    (pc = "done" /\ call.op = "percentile" /\ call.p = RInt(50) /\ call.data # <<>>) =>
        LET n == Len(call.data)
        IN  /\ Returned
            /\ ret.val = median(call.data)
            /\ ret.val = IF n % 2 = 1
                         THEN OrderStat(call.data, (n + 1) \div 2)
                         ELSE RDiv(RAdd(OrderStat(call.data, n \div 2),
                                        OrderStat(call.data, (n \div 2) + 1)),
                                   RInt(2))

C5_Witness ==
    /\ pc = "done"
    /\ call.op = "percentile"
    /\ call.p = RInt(50)
    /\ call.T = "int"
    /\ Len(call.data) = 2
    /\ RLt(call.data[2], call.data[1])
    /\ Returned
    /\ ret.val.d = 2
    /\ ret.val = median(call.data)

\* C6: resample returns a sequence as long as the sample whose every element
\* is the sample's element at a drawn index within 0..length-1; the empty
\* sample gives the empty sequence with nothing drawn, a one-element sample
\* gives that same sequence.
C6_ResampleGathersInBounds ==
    (pc = "done" /\ call.op = "resample") =>
        /\ Returned
        /\ Len(ret.val) = Len(call.data)
        /\ Len(drawn) = Len(call.data)
        /\ \A j \in 1..Len(ret.val) :
              /\ drawn[j] \in 0..(Len(call.data) - 1)
              /\ ret.val[j] = call.data[drawn[j] + 1]
        /\ call.data = <<>> => (ret.val = <<>> /\ drawn = <<>>)
        /\ Len(call.data) = 1 => ret.val = call.data

C6_Witness ==
    /\ pc = "done"
    /\ call.op = "resample"
    /\ Len(call.data) = 2
    /\ call.data[1] # call.data[2]
    /\ drawn = <<1, 1>>
    /\ Returned
    /\ ret.val = <<call.data[2], call.data[2]>>

\* C7: every pair (low, high) that confidence_interval returns, one-sample or
\* two-sample, has low <= high.
C7_LowAtMostHigh ==
    (IsCI /\ Returned) => RLe(ret.val[1], ret.val[2])

C7_Witness ==
    /\ call.op = "ci2"
    /\ call.T = "int"
    /\ call.nmax = 2
    /\ Returned
    /\ RLt(ret.val[1], ret.val[2])
    /\ RLt(result_vector[2], result_vector[1])

\* C8 (as stated): when the percentile calls are reached the accumulated
\* results are exactly nmax long and never empty, for every nmax.
C8_ResultsFullAndNeverEmpty ==
    (IsCI /\ pc = "ci_percentile") =>
        (Len(result_vector) = call.nmax /\ result_vector # <<>>)

\* C8 (amended): the loop runs exactly nmax times and appends one value per
\* pass, so that when the percentile calls are reached the accumulated
\* results are exactly nmax long; they are non-empty exactly when nmax >= 1
\* (with nmax = 0 percentile is called on an empty collection).
C8_ResultsHaveLengthNmax ==
    /\ (IsCI /\ pc \in {"ci_loop", "ci_percentile"}) =>
          (Len(result_vector) = i /\ Len(computed) = i /\ i <= call.nmax)
    /\ (IsCI /\ pc = "ci_percentile") =>
          /\ i = call.nmax
          /\ Len(result_vector) = call.nmax
          /\ (result_vector # <<>> <=> call.nmax >= 1)

C8_Witness ==
    /\ call.op = "ci1"
    /\ pc = "ci_percentile"
    /\ call.nmax = 2
    /\ Len(result_vector) = 2
    /\ nFunc = 2

\* the elements of data at the positions whose criteria element exceeds k,
\* in their order: the m-th is data at the m-th smallest selected position
Selected(criteria_data, k) ==
    {j \in 1..Len(criteria_data) : RLt(RInt(k), criteria_data[j])}

NthSelected(criteria_data, k, m) ==
    CHOOSE j \in Selected(criteria_data, k) :
        Cardinality({x \in Selected(criteria_data, k) : x <= j}) = m

\* C9: filter(data, criteria, predicate) throws invalid_argument when the
\* lengths differ; otherwise it returns, in order and once each, exactly the
\* data[i] whose criteria[i] satisfies the predicate.
C9_FilterSelectsByCriteria ==
    (pc = "done" /\ call.op = "filter") =>
        IF Len(call.data) # Len(call.data2)
        THEN Threw("invalid_argument")
        ELSE /\ Returned
             /\ Len(ret.val) = Cardinality(Selected(call.data2, call.pred))
             /\ \A m \in 1..Len(ret.val) :
                   ret.val[m] = call.data[NthSelected(call.data2, call.pred, m)]

C9_Witness ==
    /\ pc = "done"
    /\ call.op = "filter"
    /\ call.pred = 0
    /\ call.data = <<RInt(0 - 1), RInt(2)>>
    /\ call.data2 = <<RInt(1), RInt(0)>>
    /\ Returned
    /\ ret.val = <<RInt(0 - 1)>>

\* C10 (as stated): the results collection holds each iteration's value
\* exactly as computed, whatever the element type, and the pair returned is
\* (percentile(results, (100 - c)/2), percentile(results, 100 - (100 - c)/2))
\* of those values.
C10_ResultsStoredAsComputed ==
    (IsCI /\ NonEmptyInputs /\ Returned) =>
        /\ result_vector = computed
        /\ ret = Interval(computed, call.level)

\* C10 (the part that holds): with T = double the results are stored as
\* computed and the pair returned is the two percentiles of those values.
C10_DoubleStoredAsComputed ==
    (IsCI /\ NonEmptyInputs /\ Returned /\ call.T = "double") =>
        /\ result_vector = computed
        /\ ret = Interval(computed, call.level)

====
